---- MODULE Spec2Model ----
(***************************************************************************)
(* Model of the wetter_alarm integration: the WetterAlarmApiClient         *)
(* (api.py) and the WetterAlarmCoordinator (coordinator.py).               *)
(*                                                                         *)
(* Python values are modelled as follows.                                  *)
(*   - a dict is a record whose DOMAIN is the set of keys that are present *)
(*   - an optional value (x or None) is a set: {} is None, {v} is v        *)
(*   - a str holding a timestamp is a record of its parts (TsStr)          *)
(*   - an exception is a record [type, cause, poi_id, msg]                 *)
(***************************************************************************)
EXTENDS Integers, Sequences, FiniteSets, TLC

\* ---------------------------------------------------------------- bounds
MaxAlarms == 2

\* ------------------------------------------------------------- constants
SCAN_INTERVAL == 60
TIMEOUT == 10

PoiIds == {123, 456}
ConfigLanguages == {"de", ""}

None == {}
Some(v) == {v}

\* ------------------------------------------------ timestamps (strptime)
\* A timestamp string "YYYY-MM-DDTHH:MM:SS[.f+][Z]": frac is the sequence of
\* digits after the dot (<<>> when the string has no fractional part), z
\* says whether the string ends in the literal Z.
TsStr(ymd, hms, frac, z) == [ymd |-> ymd, hms |-> hms, frac |-> frac, z |-> z]

TsA     == TsStr(<<2024, 3, 1>>, <<12, 0, 0>>, <<0, 0, 0, 0, 0, 0>>, TRUE)
TsB     == TsStr(<<2024, 3, 2>>, <<6, 30, 0>>, <<2, 5, 0, 0, 0, 0>>, TRUE)
TsShort == TsStr(<<2024, 3, 2>>, <<6, 30, 0>>, <<5>>, TRUE)
TsNoZ   == TsStr(<<2024, 3, 1>>, <<12, 0, 0>>, <<0, 0, 0, 0, 0, 0>>, FALSE)
TsNoFrac == TsStr(<<2024, 3, 2>>, <<6, 30, 0>>, <<>>, TRUE)

RECURSIVE Pow10(_)
Pow10(n) == IF n = 0 THEN 1 ELSE 10 * Pow10(n - 1)

RECURSIVE DigitsValue(_)
DigitsValue(ds) ==
  IF ds = <<>> THEN 0
  ELSE 10 * DigitsValue(SubSeq(ds, 1, Len(ds) - 1)) + ds[Len(ds)]

\* %f: one to six digits, zero padded on the right to microseconds.
Microseconds(frac) == DigitsValue(frac) * Pow10(6 - Len(frac))

\* datetime.strptime(s, "%Y-%m-%dT%H:%M:%S.%fZ"): the string matches when it
\* has a fractional part of 1..6 digits and the trailing Z.
StrptimeMatches(s) == Len(s.frac) \in 1..6 /\ s.z

\* The naive datetime strptime yields (tzinfo is None).
Strptime(s) ==
  [ymd |-> s.ymd, hms |-> s.hms, microsecond |-> Microseconds(s.frac),
   tzinfo |-> "naive"]

\* datetime.replace(tzinfo=UTC)
ReplaceTzUTC(dt) == [dt EXCEPT !.tzinfo = "UTC"]

\* --------------------------------------------------------------- alarms
LangBlock(t) == [title |-> t, hint |-> "hint", signature |-> "sig"]

BaseAlarm(id, pois) ==
  [id |-> id, poi_ids |-> pois, valid_from |-> TsA, valid_to |-> TsB,
   priority |-> 2,
   region |-> [de |-> [name |-> "Zuerich"], en |-> [name |-> "Zurich"]],
   de |-> LangBlock("Sturmwarnung"), en |-> LangBlock("Storm warning")]

\* dict without key k
Without(d, k) == [x \in DOMAIN d \ {k} |-> d[x]]

AlarmIds == {-1, 7, 8}
AlarmPoiSets == {{123}, {456}}

WellFormedAlarms == {BaseAlarm(i, p) : i \in AlarmIds, p \in AlarmPoiSets}

B7 == BaseAlarm(7, {123, 456})

DefectiveAlarms ==
  { Without(B7, "poi_ids"),
    Without(B7, "valid_from"),
    [B7 EXCEPT !.valid_from = TsNoZ],
    Without(B7, "valid_to"),
    [B7 EXCEPT !.valid_to = TsNoFrac],
    Without(B7, "region"),
    [B7 EXCEPT !.region = Without(B7.region, "de")],
    Without(B7, "de"),
    Without(B7, "en"),
    [B7 EXCEPT !.region = [de |-> <<>>, en |-> <<>>]],
    [B7 EXCEPT !.de = Without(B7.de, "title"), !.en = Without(B7.en, "hint")],
    Without(Without(B7, "id"), "priority") }

\* strptime accepts a fraction of fewer than six digits
ShortFractionAlarms == {[B7 EXCEPT !.id = 8, !.valid_to = TsShort]}

Alarms == WellFormedAlarms \cup ShortFractionAlarms \cup DefectiveAlarms

RECURSIVE SeqsUpTo(_, _)
SeqsUpTo(S, n) ==
  IF n = 0 THEN {<<>>}
  ELSE LET shorter == SeqsUpTo(S, n - 1)
       IN  shorter \cup {Append(s, a) : s \in {t \in shorter : Len(t) = n - 1}, a \in S}

AlarmLists == SeqsUpTo(Alarms, MaxAlarms)

\* ------------------------------------------------------ response bodies
\* What response.json() can decode: JSON null (also the empty body), a
\* top-level list, or an object (dict).
BodyNull == [t |-> "null"]
BodyList == [t |-> "list"]
BodyDict(d) == [t |-> "dict", d |-> d]

EmptyDict == <<>>
PoiDict == [id |-> 123, name |-> "Zuerich"]

\* Bodies without an alarm list; the POI endpoint answers with one of these.
PlainBodies ==
  {BodyNull, BodyList, BodyDict(EmptyDict), BodyDict(PoiDict),
   BodyDict([meteo_alarms |-> [t |-> "number"]])}

Bodies ==
  PlainBodies
  \cup {BodyDict([meteo_alarms |-> [t |-> "list", items |-> l]]) : l \in AlarmLists}

ErrorEvents == {[kind |-> "client_error"], [kind |-> "gaierror"], [kind |-> "decode_error"]}

\* What can happen to a request before the timeout expires: to the alarm
\* list request (alert_url) and to the POI request (poi_url).
NetEvents == {[kind |-> "json", body |-> b] : b \in Bodies} \cup ErrorEvents

PoiEvents == {[kind |-> "json", body |-> b] : b \in PlainBodies} \cup ErrorEvents

TimeoutEvent == [kind |-> "timeout"]

\* Python truthiness of a decoded body.
Truthy(b) ==
  CASE b.t = "null" -> FALSE
    [] b.t = "list" -> TRUE
    [] b.t = "dict" -> DOMAIN b.d # {}

\* dict.get(k)
Get(d, k) == IF k \in DOMAIN d THEN Some(d[k]) ELSE None

\* the value held by an optional that is not None
The(o) == CHOOSE v \in o : TRUE

\* str(poi_id)
Str(n) == CASE n = 123 -> "123" [] n = 456 -> "456"

\* ------------------------------------------------- outcomes, exceptions
NoLog == "none"
Return(v, log) == [kind |-> "return", value |-> v, log |-> log]
Raise(e, log) == [kind |-> "raise", exc |-> e, log |-> log]
NoOutcome == [kind |-> "none"]
NoEvent == [kind |-> "none"]

Exc(type, cause, poi, msg) == [type |-> type, cause |-> cause, poi_id |-> poi, msg |-> msg]
PlainExc(type) == Exc(type, "none", "", <<>>)

CannotConnectError(message, original_exception) ==
  Exc("CannotConnectError", original_exception, "", <<message>>)

WetterAlarmApiError(poi, msg) == Exc("WetterAlarmApiError", "none", poi, msg)

UpdateFailed(exception) == Exc("UpdateFailed", exception.type, exception.poi_id, exception.msg)

\* -------------------------------------------------------- the API client
WetterAlarmApiClient(poi, lang) ==
  [poi_id |-> poi, data_language |-> IF lang = "" THEN "en" ELSE lang]

NoClient == [poi_id |-> 0, data_language |-> "none"]

\* Mutant: the except clause for TimeoutError is missing, the timeout
\* leaves _api_wrapper unwrapped.
ApiWrapperUnwrappedTimeout(ev) ==
  CASE ev.kind = "json" -> Return(ev.body, NoLog)
    [] ev.kind = "timeout" -> Raise(PlainExc("TimeoutError"), NoLog)
    [] ev.kind = "client_error" ->
         Raise(CannotConnectError("Error fetching information", "ClientError"), NoLog)
    [] ev.kind = "gaierror" ->
         Raise(CannotConnectError("Error fetching information", "gaierror"), NoLog)
    [] ev.kind = "decode_error" -> Raise(PlainExc("JSONDecodeError"), NoLog)

\* _api_wrapper: the outcome of the one-shot request for a network event.
ApiWrapper(ev) ==
  CASE ev.kind = "json" -> Return(ev.body, NoLog)
    [] ev.kind = "timeout" ->
         Raise(CannotConnectError("Timeout error fetching information", "TimeoutError"), NoLog)
    [] ev.kind = "client_error" ->
         Raise(CannotConnectError("Error fetching information", "ClientError"), NoLog)
    [] ev.kind = "gaierror" ->
         Raise(CannotConnectError("Error fetching information", "gaierror"), NoLog)
    [] ev.kind = "decode_error" -> Raise(PlainExc("JSONDecodeError"), NoLog)

InvalidPoiMsg(client) == <<"POI", Str(client.poi_id), "did not return a valid response">>

\* async_validate_poi_id, given the outcome w of its _api_wrapper call.
ValidatePoiId(client, w) ==
  IF w.kind = "return"
  THEN IF Truthy(w.value)
       THEN Return(TRUE, NoLog)
       ELSE Raise(WetterAlarmApiError(Str(client.poi_id), InvalidPoiMsg(client)), NoLog)
  ELSE IF w.exc.type = "CannotConnectError"
       THEN Raise(WetterAlarmApiError(Str(client.poi_id), InvalidPoiMsg(client)),
                  "error validating the POI")
       ELSE w

\* Mutant: the no-alarm record carries id 0 instead of the -1 sentinel.
NoAlarmRecordZeroId ==
  [alarm_id |-> Some(0), valid_from |-> None, valid_to |-> None,
   priority |-> None, region |-> None, title |-> None, hint |-> None,
   signature |-> None]

\* The record returned when no alarm matches.
NoAlarmRecord ==
  [alarm_id |-> Some(-1), valid_from |-> None, valid_to |-> None,
   priority |-> None, region |-> None, title |-> None, hint |-> None,
   signature |-> None]

\* The dict literal built for a matching alarm, evaluated key by key in
\* source order; the first failing expression raises.
AlarmRecord(client, alarm) ==
  LET lang == client.data_language
      vf == Get(alarm, "valid_from")
      vt == Get(alarm, "valid_to")
      rg == Get(alarm, "region")
  IN  IF vf = None THEN Raise(PlainExc("TypeError"), NoLog)
      ELSE IF ~StrptimeMatches(The(vf)) THEN Raise(PlainExc("ValueError"), NoLog)
      ELSE IF vt = None THEN Raise(PlainExc("TypeError"), NoLog)
      ELSE IF ~StrptimeMatches(The(vt)) THEN Raise(PlainExc("ValueError"), NoLog)
      ELSE IF rg = None THEN Raise(PlainExc("TypeError"), NoLog)
      ELSE IF lang \notin DOMAIN The(rg) THEN Raise(PlainExc("KeyError"), NoLog)
      ELSE IF lang \notin DOMAIN alarm THEN Raise(PlainExc("KeyError"), NoLog)
      ELSE Return(Some([alarm_id |-> Get(alarm, "id"),
                         valid_from |-> Some(ReplaceTzUTC(Strptime(The(vf)))),
                         valid_to |-> Some(ReplaceTzUTC(Strptime(The(vt)))),
                         priority |-> Get(alarm, "priority"),
                         region |-> Get(The(rg)[lang], "name"),
                         title |-> Get(alarm[lang], "title"),
                         hint |-> Get(alarm[lang], "hint"),
                         signature |-> Get(alarm[lang], "signature")]),
                  "found alarm")

\* Mutant: the loop does not return at the first match, a later matching
\* alarm replaces an earlier one.
RECURSIVE ScanAlarmsLastMatch(_, _, _)
ScanAlarmsLastMatch(client, alarms, i) ==
  IF i > Len(alarms) THEN Return(Some(NoAlarmRecord), NoLog)
  ELSE IF "poi_ids" \notin DOMAIN alarms[i] THEN Raise(PlainExc("KeyError"), NoLog)
  ELSE IF /\ client.poi_id \in alarms[i].poi_ids
          /\ ~\E j \in (i + 1)..Len(alarms) :
                /\ "poi_ids" \in DOMAIN alarms[j]
                /\ client.poi_id \in alarms[j].poi_ids
       THEN AlarmRecord(client, alarms[i])
       ELSE ScanAlarmsLastMatch(client, alarms, i + 1)

\* The for loop over meteo_alarms from position i, followed by the
\* "if not found_alarm" return.
RECURSIVE ScanAlarms(_, _, _)
ScanAlarms(client, alarms, i) ==
  IF i > Len(alarms) THEN Return(Some(NoAlarmRecord), NoLog)
  ELSE IF "poi_ids" \notin DOMAIN alarms[i] THEN Raise(PlainExc("KeyError"), NoLog)
  ELSE IF client.poi_id \in alarms[i].poi_ids THEN AlarmRecord(client, alarms[i])
  ELSE ScanAlarms(client, alarms, i + 1)

\* The body of the try block of async_search_for_alerts, given the outcome
\* w of its _api_wrapper call.
SearchTry(client, w) ==
  IF w.kind = "raise" THEN w
  ELSE IF w.value.t # "dict" THEN Raise(PlainExc("AttributeError"), NoLog)
  ELSE LET meteo_alarms == Get(w.value.d, "meteo_alarms")
       IN  IF meteo_alarms = None THEN Raise(PlainExc("TypeError"), NoLog)
           ELSE IF The(meteo_alarms).t # "list" THEN Raise(PlainExc("TypeError"), NoLog)
           ELSE ScanAlarms(client, The(meteo_alarms).items, 1)

\* The except clauses of async_search_for_alerts: the exception is logged
\* and the function falls off its end, returning None.
SearchExcept(o) ==
  IF o.kind # "raise" THEN o
  ELSE IF o.exc.type = "JSONDecodeError" THEN Return(None, "did not return a valid JSON")
  ELSE IF o.exc.type \in {"ValueError", "KeyError"}
       THEN Return(None, "did not satisfy expectations")
       ELSE o

SearchForAlerts(client, w) == SearchExcept(SearchTry(client, w))

\* ------------------------------------------------------- the coordinator
\* The try/except of _async_update_data around fetch_all_values.
UpdateData(o) ==
  IF o.kind = "raise" /\ o.exc.type = "WetterAlarmApiError"
  THEN Raise(UpdateFailed(o.exc), o.log)
  ELSE o

\* ------------------------------------------------------------ the state
VARIABLES
  poi_id,           \* WetterAlarmCoordinator._poi_id
  data_language,    \* WetterAlarmCoordinator._data_language
  update_interval,  \* DataUpdateCoordinator.update_interval, in seconds
  op,               \* the operation in progress: "none", "validate", "poll"
  pc,               \* "idle", "request" (awaiting _api_wrapper), "ended"
  client,           \* the WetterAlarmApiClient of the operation in progress
  elapsed,          \* seconds spent inside async_timeout.timeout(10)
  requests,         \* HTTP requests issued by the operation in progress
  event,            \* what ended the pending request (input of _api_wrapper)
  wrapped,          \* the outcome of _api_wrapper
  outcome           \* the outcome of the operation

vars == <<poi_id, data_language, update_interval, op, pc, client, elapsed,
          requests, event, wrapped, outcome>>

config == <<poi_id, data_language, update_interval>>

Init ==
  /\ poi_id \in PoiIds
  /\ data_language \in ConfigLanguages
  /\ update_interval = SCAN_INTERVAL
  /\ op = "none"
  /\ pc = "idle"
  /\ client = NoClient
  /\ elapsed = 0
  /\ requests = 0
  /\ event = NoEvent
  /\ wrapped = NoOutcome
  /\ outcome = NoOutcome

\* The setup flow calls async_validate_poi_id; the call reaches the await
\* of _api_wrapper with the request sent.
StartValidate ==
  /\ pc = "idle"
  /\ op' = "validate"
  /\ client' = WetterAlarmApiClient(poi_id, data_language)
  /\ pc' = "request"
  /\ elapsed' = 0
  /\ requests' = 1
  /\ UNCHANGED <<config, event, wrapped, outcome>>

\* The host timer calls _async_update_data; a fresh client is built and
\* async_search_for_alerts reaches the await of _api_wrapper.
StartPoll ==
  /\ pc = "idle"
  /\ update_interval' = SCAN_INTERVAL
  /\ op' = "poll"
  /\ client' = WetterAlarmApiClient(poi_id, data_language)
  /\ pc' = "request"
  /\ elapsed' = 0
  /\ requests' = 1
  /\ UNCHANGED <<poi_id, data_language, event, wrapped, outcome>>

\* _api_wrapper ends on network event ev and the operation runs to its end.
Complete(ev) ==
  /\ event' = ev
  /\ wrapped' = ApiWrapper(ev)
  /\ outcome' = IF op = "validate"
                THEN ValidatePoiId(client, ApiWrapper(ev))
                ELSE UpdateData(SearchForAlerts(client, ApiWrapper(ev)))
  /\ pc' = "ended"
  /\ elapsed' = 0
  /\ UNCHANGED <<config, op, client, requests>>

\* A second passes while the request is pending.
Tick ==
  /\ pc = "request"
  /\ elapsed < TIMEOUT
  /\ elapsed' = elapsed + 1
  /\ UNCHANGED <<config, op, pc, client, requests, event, wrapped, outcome>>

\* The request ends before the timeout: a decoded body or an error.
Respond ==
  /\ pc = "request"
  /\ elapsed < TIMEOUT
  /\ \E ev \in (IF op = "validate" THEN PoiEvents ELSE NetEvents) : Complete(ev)

\* Mutant: a request that timed out is issued once more.
TimeoutRetries ==
  /\ pc = "request"
  /\ elapsed = TIMEOUT
  /\ IF requests < 2
     THEN /\ requests' = requests + 1
          /\ elapsed' = 0
          /\ UNCHANGED <<config, op, pc, client, event, wrapped, outcome>>
     ELSE Complete(TimeoutEvent)

\* async_timeout.timeout(10) expires.
Timeout ==
  /\ pc = "request"
  /\ elapsed = TIMEOUT
  /\ Complete(TimeoutEvent)

\* The caller has received the outcome; the adapter is idle again.
Finish ==
  /\ pc = "ended"
  /\ pc' = "idle"
  /\ op' = "none"
  /\ client' = NoClient
  /\ requests' = 0
  /\ event' = NoEvent
  /\ wrapped' = NoOutcome
  /\ outcome' = NoOutcome
  /\ UNCHANGED <<config, elapsed>>

Next == StartValidate \/ StartPoll \/ Tick \/ Respond \/ Timeout \/ Finish

Spec == Init /\ [][Next]_vars

\* Time passes while a request is pending and the timeout fires when due.
FairSpec == Spec /\ WF_vars(Tick \/ Timeout)

\* ------------------------------------------------- vocabulary of claims
PollEnded == pc = "ended" /\ op = "poll"
ValidateEnded == pc = "ended" /\ op = "validate"

\* The response decoded to an object whose meteo_alarms is a list.
HasAlarmList ==
  /\ event.kind = "json"
  /\ event.body.t = "dict"
  /\ "meteo_alarms" \in DOMAIN event.body.d
  /\ event.body.d.meteo_alarms.t = "list"

ReceivedAlarms == event.body.d.meteo_alarms.items

AlarmKeys == {"id", "poi_ids", "valid_from", "valid_to", "priority", "region"}

\* An alarm object of the documented shape, for data language lang.
WellFormedAlarm(a, lang) ==
  /\ AlarmKeys \subseteq DOMAIN a
  /\ StrptimeMatches(a.valid_from)
  /\ StrptimeMatches(a.valid_to)
  /\ lang \in DOMAIN a.region
  /\ "name" \in DOMAIN a.region[lang]
  /\ lang \in DOMAIN a
  /\ {"title", "hint", "signature"} \subseteq DOMAIN a[lang]

WellFormedList ==
  \A i \in 1..Len(ReceivedAlarms) : WellFormedAlarm(ReceivedAlarms[i], client.data_language)

Covers(a) == "poi_ids" \in DOMAIN a /\ client.poi_id \in a.poi_ids

MatchingAlarms == {i \in 1..Len(ReceivedAlarms) : Covers(ReceivedAlarms[i])}

FirstMatch == CHOOSE i \in MatchingAlarms : \A j \in MatchingAlarms : i <= j

ReturnsRecord == outcome.kind = "return" /\ outcome.value # None

ReturnedRecord == The(outcome.value)

OtherFieldsAbsent(r) ==
  /\ r.valid_from = None /\ r.valid_to = None /\ r.priority = None
  /\ r.region = None /\ r.title = None /\ r.hint = None /\ r.signature = None

\* dt is the UTC instant that the timestamp string s denotes.
ParsedAsUTC(dt, s) ==
  /\ dt.ymd = s.ymd
  /\ dt.hms = s.hms
  /\ dt.tzinfo = "UTC"
  /\ dt.microsecond = DigitsValue(s.frac \o [i \in 1..(6 - Len(s.frac)) |-> 0])

\* ---------------------------------------------------------------- claims

\* C1: for a well-formed meteo_alarms list in which at least one alarm
\* covers the configured POI, the poll returns the record built from the
\* first covering alarm in list order: its id, its timestamps parsed as
\* UTC, its priority and the fields of the configured language.
C1_FirstMatchReturned ==
  (PollEnded /\ HasAlarmList /\ WellFormedList /\ MatchingAlarms # {}) =>
    /\ ReturnsRecord
    /\ LET a == ReceivedAlarms[FirstMatch]
           r == ReturnedRecord
           lang == client.data_language
       IN  /\ r.alarm_id = Some(a.id)
           /\ r.valid_from # None /\ ParsedAsUTC(The(r.valid_from), a.valid_from)
           /\ r.valid_to # None /\ ParsedAsUTC(The(r.valid_to), a.valid_to)
           /\ r.priority = Some(a.priority)
           /\ r.region = Some(a.region[lang].name)
           /\ r.title = Some(a[lang].title)
           /\ r.hint = Some(a[lang].hint)
           /\ r.signature = Some(a[lang].signature)

\* Two alarms with different ids cover the POI and the first one's id came back.
C1_Witness ==
  /\ PollEnded /\ HasAlarmList /\ WellFormedList
  /\ Cardinality(MatchingAlarms) >= 2
  /\ \E j \in MatchingAlarms : ReceivedAlarms[j].id # ReceivedAlarms[FirstMatch].id
  /\ ReturnsRecord
  /\ ReturnedRecord.alarm_id = Some(ReceivedAlarms[FirstMatch].id)

\* C2: for a well-formed meteo_alarms list (the empty list included) in
\* which no alarm covers the configured POI, the poll returns the sentinel
\* record: alarm_id -1 and every other field absent.
C2_NoMatchSentinel ==
  (PollEnded /\ HasAlarmList /\ WellFormedList /\ MatchingAlarms = {}) =>
    /\ ReturnsRecord
    /\ ReturnedRecord.alarm_id = Some(-1)
    /\ OtherFieldsAbsent(ReturnedRecord)

\* A non-empty list of alarms for other POIs produced the sentinel.
C2_Witness ==
  /\ PollEnded /\ HasAlarmList /\ WellFormedList
  /\ Len(ReceivedAlarms) >= 1
  /\ MatchingAlarms = {}
  /\ ReturnsRecord
  /\ ReturnedRecord.alarm_id = Some(-1)

\* C3: every record a poll returns with alarm_id -1 has all its other
\* fields absent, also when a covering alarm's own id is -1.
C3_SentinelIdImpliesAbsent ==
  (PollEnded /\ ReturnsRecord /\ ReturnedRecord.alarm_id = Some(-1)) =>
    OtherFieldsAbsent(ReturnedRecord)

\* C4: validation returns true exactly when the request completed with a
\* truthy body, and in every other case fails with the validation error
\* carrying the POI id and a message.
C4_ValidateOutcomes ==
  ValidateEnded =>
    IF event.kind = "json" /\ Truthy(event.body)
    THEN outcome.kind = "return" /\ outcome.value = TRUE
    ELSE /\ outcome.kind = "raise"
         /\ outcome.exc.type = "WetterAlarmApiError"
         /\ outcome.exc.poi_id = Str(client.poi_id)
         /\ outcome.exc.msg # <<>>

\* C5: every error arising during a poll leaves _async_update_data as
\* UpdateFailed with the original error as its cause.
C5_PollErrorsBecomeUpdateFailed ==
  (PollEnded /\ SearchTry(client, wrapped).kind = "raise") =>
    /\ outcome.kind = "raise"
    /\ outcome.exc.type = "UpdateFailed"
    /\ outcome.exc.cause = SearchTry(client, wrapped).exc.type

\* The first covering alarm is reached by the scan, has parseable
\* timestamps and a region mapping, and lacks the block of data language
\* lang (under region or at top level) or one of its nested fields.
LacksLocalized(a, lang) ==
  /\ {"valid_from", "valid_to", "region"} \subseteq DOMAIN a
  /\ StrptimeMatches(a.valid_from)
  /\ StrptimeMatches(a.valid_to)
  /\ \/ lang \notin DOMAIN a.region
     \/ lang \notin DOMAIN a
     \/ "name" \notin DOMAIN a.region[lang]
     \/ ~({"title", "hint", "signature"} \subseteq DOMAIN a[lang])

ScanReaches(i) ==
  \A j \in 1..(i - 1) :
    "poi_ids" \in DOMAIN ReceivedAlarms[j] /\ client.poi_id \notin ReceivedAlarms[j].poi_ids

\* C6: when the first covering alarm lacks the configured language block or
\* a nested localized field, the poll still returns a record with that
\* alarm's id, and only the affected localized fields are absent.
C6_MissingLanguageDegrades ==
  (/\ PollEnded /\ HasAlarmList /\ MatchingAlarms # {}
   /\ ScanReaches(FirstMatch)
   /\ LacksLocalized(ReceivedAlarms[FirstMatch], client.data_language)) =>
    /\ ReturnsRecord
    /\ LET a == ReceivedAlarms[FirstMatch]
           r == ReturnedRecord
           lang == client.data_language
       IN  /\ r.alarm_id = Get(a, "id")
           /\ r.valid_from # None /\ r.valid_to # None
           /\ r.region = IF lang \in DOMAIN a.region THEN Get(a.region[lang], "name") ELSE None
           /\ r.title = IF lang \in DOMAIN a THEN Get(a[lang], "title") ELSE None
           /\ r.hint = IF lang \in DOMAIN a THEN Get(a[lang], "hint") ELSE None
           /\ r.signature = IF lang \in DOMAIN a THEN Get(a[lang], "signature") ELSE None

BadTimestamps(a) ==
  \E k \in {"valid_from", "valid_to"} : k \notin DOMAIN a \/ ~StrptimeMatches(a[k])

\* The response is malformed: it could not be decoded, meteo_alarms is
\* missing or not a list, or the scan reaches an alarm without poi_ids or a
\* covering alarm whose valid_from/valid_to is missing or ill-formatted.
MalformedResponse ==
  \/ event.kind = "decode_error"
  \/ event.kind = "json" /\ ~HasAlarmList
  \/ /\ HasAlarmList
     /\ \E i \in 1..Len(ReceivedAlarms) :
          /\ ScanReaches(i)
          /\ \/ "poi_ids" \notin DOMAIN ReceivedAlarms[i]
             \/ Covers(ReceivedAlarms[i]) /\ BadTimestamps(ReceivedAlarms[i])

\* C7: on a malformed response search_for_alerts raises nothing: the
\* problem is logged and the call returns nothing.
C7_MalformedSwallowed ==
  (PollEnded /\ MalformedResponse) =>
    /\ outcome.kind = "return"
    /\ outcome.value = None
    /\ outcome.log # NoLog

\* C8: a poll ends in exactly one of two outcomes, Success carrying an
\* AlertRecord or Failed (UpdateFailed) carrying the cause; never in
\* Success with no record.
C8_PollEndsInSuccessOrFailed ==
  PollEnded =>
    \/ ReturnsRecord
    \/ outcome.kind = "raise" /\ outcome.exc.type = "UpdateFailed"

TransportFailures == {"timeout", "client_error", "gaierror"}

OriginalException(kind) ==
  CASE kind = "timeout" -> "TimeoutError"
    [] kind = "client_error" -> "ClientError"
    [] kind = "gaierror" -> "gaierror"

\* C9: a transport call that ends by the 10-second timeout or a
\* network-level error raises CannotConnectError carrying the original
\* exception, a pending call never waits past the timeout, and every
\* pending call ends.
C9_TransportFailuresWrapped ==
  /\ []((pc = "ended" /\ event.kind \in TransportFailures) =>
          /\ wrapped.kind = "raise"
          /\ wrapped.exc.type = "CannotConnectError"
          /\ wrapped.exc.cause = OriginalException(event.kind))
  /\ [](pc = "request" => elapsed <= TIMEOUT)
  /\ ((pc = "request") ~> (pc = "ended"))

\* A call ended by the timeout raised CannotConnectError.
C9_Witness ==
  /\ pc = "ended"
  /\ event.kind = "timeout"
  /\ wrapped.kind = "raise"
  /\ wrapped.exc.type = "CannotConnectError"
  /\ wrapped.exc.cause = "TimeoutError"

\* C10: an operation in progress or ended has issued exactly one HTTP
\* request, failed or not, and no step changes the held configuration
\* (POI id, data language, 60-second interval).
C10_OneRequestPerOperation ==
  /\ [](pc \in {"request", "ended"} => requests = 1)
  /\ [](update_interval = SCAN_INTERVAL)
  /\ [][config' = config]_vars

\* A poll whose request failed ended with one request issued.
C10_Witness ==
  /\ PollEnded
  /\ wrapped.kind = "raise"
  /\ requests = 1
  /\ update_interval = SCAN_INTERVAL

====
